---- MODULE Spec2Model ----
(***************************************************************************)
(* A model of src/src/vec2.rs: the generic two-dimensional vector Vec2<T>, *)
(* its operators (+, -, *, /, ==) and its geometric methods (magnitude,    *)
(* normalized, dot, cross, angle, rotate_around).                          *)
(*                                                                         *)
(* The element type T is modelled at two instantiations: "i8" (an integer  *)
(* type that converts losslessly into f32) and "f32".  An f32 is modelled  *)
(* bit for bit as an IEEE-754 binary32 value, a record [s, e, m] of sign,  *)
(* biased exponent and fraction, and its arithmetic is computed as the     *)
(* hardware computes it: round to nearest, ties to even, with subnormals,  *)
(* infinities and NaN.                                                     *)
(***************************************************************************)
EXTENDS Integers, Sequences, FiniteSets, TLC

(***************************************************************************)
(* IEEE-754 binary32                                                       *)
(***************************************************************************)

\* The weight of the hidden bit of a normal significand.
Hidden == 2^23

\* One past the largest 24-bit significand.
SigLimit == 2^24

F32(s, e, m) == [s |-> s, e |-> e, m |-> m]

\* The canonical quiet NaN, 0x7FC00000.
NaN == F32(0, 255, 4194304)

Inf(s) == F32(s, 255, 0)

Zero(s) == F32(s, 0, 0)

IsNaN(f) == f.e = 255 /\ f.m # 0

IsInf(f) == f.e = 255 /\ f.m = 0

IsZero(f) == f.e = 0 /\ f.m = 0

IsFinite(f) == f.e # 255

\* The integer significand and the exponent of its unit: f = Sig * 2^Exp.
Sig(f) == IF f.e = 0 THEN f.m ELSE Hidden + f.m

Exp(f) == IF f.e = 0 THEN -149 ELSE f.e - 150

\* The number of bits of n < 2^31, found by bisection.
BitLen(n) ==
    IF n >= 32768
    THEN IF n >= 8388608
         THEN IF n >= 134217728
              THEN IF n >= 536870912
                   THEN IF n >= 1073741824
                        THEN 31
                        ELSE 30
                   ELSE IF n >= 268435456
                        THEN 29
                        ELSE 28
              ELSE IF n >= 33554432
                   THEN IF n >= 67108864
                        THEN 27
                        ELSE 26
                   ELSE IF n >= 16777216
                        THEN 25
                        ELSE 24
         ELSE IF n >= 524288
              THEN IF n >= 2097152
                   THEN IF n >= 4194304
                        THEN 23
                        ELSE 22
                   ELSE IF n >= 1048576
                        THEN 21
                        ELSE 20
              ELSE IF n >= 131072
                   THEN IF n >= 262144
                        THEN 19
                        ELSE 18
                   ELSE IF n >= 65536
                        THEN 17
                        ELSE 16
    ELSE IF n >= 128
         THEN IF n >= 2048
              THEN IF n >= 8192
                   THEN IF n >= 16384
                        THEN 15
                        ELSE 14
                   ELSE IF n >= 4096
                        THEN 13
                        ELSE 12
              ELSE IF n >= 512
                   THEN IF n >= 1024
                        THEN 11
                        ELSE 10
                   ELSE IF n >= 256
                        THEN 9
                        ELSE 8
         ELSE IF n >= 8
              THEN IF n >= 32
                   THEN IF n >= 64
                        THEN 7
                        ELSE 6
                   ELSE IF n >= 16
                        THEN 5
                        ELSE 4
              ELSE IF n >= 2
                   THEN IF n >= 4
                        THEN 3
                        ELSE 2
                   ELSE IF n >= 1
                        THEN 1
                        ELSE 0

\* The significand shifted left to 24 bits, with the exponent to match.
NormSig(f) == IF f.e # 0 THEN Sig(f) ELSE Sig(f) * 2^(24 - BitLen(Sig(f)))

NormExp(f) == IF f.e # 0 THEN Exp(f) ELSE Exp(f) - (24 - BitLen(Sig(f)))

\* A rounded significand q (at most 2^24) with unit 2^el, as a binary32.
Pack(s, q, el) ==
    LET qq == IF q = SigLimit THEN Hidden ELSE q
        ee == IF q = SigLimit THEN el + 1 ELSE el
    IN  IF qq >= Hidden
        THEN IF ee + 150 >= 255 THEN Inf(s) ELSE F32(s, ee + 150, qq - Hidden)
        ELSE F32(s, 0, qq)

\* The binary32 nearest to (-1)^s * (mag + fraction) * 2^ex, ties to even;
\* st = 1 says a nonzero fraction lies below mag's last bit (mag then has at
\* least 26 bits).  mag < 2^30.
RoundPack(s, mag, ex, st) ==
    IF mag = 0 THEN Zero(s)
    ELSE LET n == BitLen(mag)
             sh == IF ex + (n - 24) < -149 THEN -149 - ex ELSE n - 24
         IN  IF sh <= 0 THEN Pack(s, mag * 2^(-sh), ex + sh)
             ELSE IF sh > n THEN Zero(s)
             ELSE LET q == mag \div 2^sh
                      r == mag % 2^sh
                      half == 2^(sh - 1)
                      up == r > half \/ (r = half /\ (st = 1 \/ q % 2 = 1))
                  IN  Pack(s, IF up THEN q + 1 ELSE q, ex + sh)

FNeg(f) == IF IsNaN(f) THEN NaN ELSE F32(1 - f.s, f.e, f.m)

FAbs(f) == IF IsNaN(f) THEN NaN ELSE F32(0, f.e, f.m)

\* mag shifted right by d bits, a lost nonzero remainder kept in the last bit.
ShiftRightJam(mag, d) ==
    IF d = 0 THEN mag
    ELSE IF d >= 30 THEN (IF mag = 0 THEN 0 ELSE 1)
    ELSE LET q == mag \div 2^d
         IN  IF mag % 2^d # 0 /\ q % 2 = 0 THEN q + 1 ELSE q

\* a + b for finite nonzero a, b.
AddFinite(a, b) ==
    LET hi == IF Exp(a) >= Exp(b) THEN a ELSE b
        lo == IF Exp(a) >= Exp(b) THEN b ELSE a
        A  == Sig(hi) * 32
        B  == ShiftRightJam(Sig(lo) * 32, Exp(hi) - Exp(lo))
        ex == Exp(hi) - 5
    IN  IF hi.s = lo.s THEN RoundPack(hi.s, A + B, ex, 0)
        ELSE IF A = B THEN Zero(0)
        ELSE IF A > B THEN RoundPack(hi.s, A - B, ex, 0)
        ELSE RoundPack(lo.s, B - A, ex, 0)

FAdd(a, b) ==
    IF IsNaN(a) \/ IsNaN(b) THEN NaN
    ELSE IF IsInf(a) THEN (IF IsInf(b) /\ a.s # b.s THEN NaN ELSE a)
    ELSE IF IsInf(b) THEN b
    ELSE IF IsZero(a) /\ IsZero(b) THEN (IF a.s = b.s THEN a ELSE Zero(0))
    ELSE IF IsZero(a) THEN b
    ELSE IF IsZero(b) THEN a
    ELSE AddFinite(a, b)

FSub(a, b) == FAdd(a, FNeg(b))

\* a * b for finite nonzero a, b: the 48-bit product of the two 24-bit
\* significands, formed from 12-bit halves.
MulFinite(a, b) ==
    LET ma == NormSig(a)
        mb == NormSig(b)
        ah == ma \div 4096
        al == ma % 4096
        bh == mb \div 4096
        bl == mb % 4096
        mid == ah * bl + al * bh
        t  == (mid % 4096) * 4096 + al * bl
        top == ah * bh + mid \div 4096 + t \div SigLimit
        low == t % SigLimit
    IN  RoundPack((a.s + b.s) % 2, top * 64 + low \div 262144,
                  NormExp(a) + NormExp(b) + 18,
                  IF low % 262144 # 0 THEN 1 ELSE 0)

FMul(a, b) ==
    IF IsNaN(a) \/ IsNaN(b) THEN NaN
    ELSE IF IsInf(a) \/ IsInf(b)
         THEN (IF IsZero(a) \/ IsZero(b) THEN NaN ELSE Inf((a.s + b.s) % 2))
    ELSE IF IsZero(a) \/ IsZero(b) THEN Zero((a.s + b.s) % 2)
    ELSE MulFinite(a, b)

\* n more quotient bits of rem / d, up to seven at a time (rem < d < 2^24):
\* <<quotient, remainder>>.
RECURSIVE LongDiv(_, _, _, _)
LongDiv(q, rem, d, n) ==
    IF n = 0 THEN <<q, rem>>
    ELSE LET k == IF n < 7 THEN n ELSE 7
         IN  LongDiv(q * 2^k + (rem * 2^k) \div d, (rem * 2^k) % d, d, n - k)

DivFinite(a, b) ==
    LET ma == NormSig(a)
        mb == NormSig(b)
        qr == LongDiv(ma \div mb, ma % mb, mb, 26)
    IN  RoundPack((a.s + b.s) % 2, qr[1], NormExp(a) - NormExp(b) - 26,
                  IF qr[2] # 0 THEN 1 ELSE 0)

FDiv(a, b) ==
    IF IsNaN(a) \/ IsNaN(b) THEN NaN
    ELSE IF IsInf(a) THEN (IF IsInf(b) THEN NaN ELSE Inf((a.s + b.s) % 2))
    ELSE IF IsInf(b) THEN Zero((a.s + b.s) % 2)
    ELSE IF IsZero(b) THEN (IF IsZero(a) THEN NaN ELSE Inf((a.s + b.s) % 2))
    ELSE IF IsZero(a) THEN Zero((a.s + b.s) % 2)
    ELSE DivFinite(a, b)

\* The integer square root of n < 2^25, found bit by bit from 2^bit down.
RECURSIVE IsqrtFrom(_, _, _)
IsqrtFrom(n, r, bit) ==
    IF bit < 0 THEN r
    ELSE IF (r + 2^bit) * (r + 2^bit) <= n THEN IsqrtFrom(n, r + 2^bit, bit - 1)
    ELSE IsqrtFrom(n, r, bit - 1)

\* n more bits of a square root r with remainder rem: <<root, remainder>>.
RECURSIVE SqrtMore(_, _, _)
SqrtMore(r, rem, n) ==
    IF n = 0 THEN <<r, rem>>
    ELSE IF 4 * rem >= 4 * r + 1 THEN SqrtMore(2 * r + 1, 4 * rem - (4 * r + 1), n - 1)
    ELSE SqrtMore(2 * r, 4 * rem, n - 1)

SqrtFinite(a) ==
    LET odd == NormExp(a) % 2 = 1
        m2 == IF odd THEN 2 * NormSig(a) ELSE NormSig(a)
        e2 == IF odd THEN NormExp(a) - 1 ELSE NormExp(a)
        r0 == IsqrtFrom(m2, 0, 12)
        rr == SqrtMore(r0, m2 - r0 * r0, 14)
    IN  RoundPack(0, rr[1], e2 \div 2 - 14, IF rr[2] # 0 THEN 1 ELSE 0)

FSqrt(a) ==
    IF IsNaN(a) THEN NaN
    ELSE IF IsZero(a) THEN a
    ELSE IF a.s = 1 THEN NaN
    ELSE IF IsInf(a) THEN a
    ELSE SqrtFinite(a)

\* The order of the non-NaN values: sign and magnitude as one integer.
Key(f) == IF f.s = 1 THEN -(f.e * Hidden + f.m) ELSE f.e * Hidden + f.m

FLt(a, b) == ~IsNaN(a) /\ ~IsNaN(b) /\ Key(a) < Key(b)

FLe(a, b) == ~IsNaN(a) /\ ~IsNaN(b) /\ Key(a) <= Key(b)

\* f32's ==: NaN equals nothing, -0.0 equals 0.0.
FEq(a, b) == ~IsNaN(a) /\ ~IsNaN(b) /\ Key(a) = Key(b)

\* An integer of magnitude below 2^24, converted exactly.
FromInt(i) == IF i < 0 THEN RoundPack(1, -i, 0, 0) ELSE RoundPack(0, i, 0, 0)

(***************************************************************************)
(* The element type T and the build                                        *)
(***************************************************************************)

VARIABLES
    T,                \* the element type Vec2<T> is instantiated at
    overflow_checks,  \* whether the build panics on integer overflow
    a,                \* the caller's first vector: receiver, left operand
    b,                \* the caller's second vector: argument, pivot, right operand
    op,               \* the operation called last
    arg,              \* its scalar or angle argument, 0 if it has none
    res,              \* what it returned: [kind, val]
    back              \* what the rotation back by -angle returned

vars == <<T, overflow_checks, a, b, op, arg, res, back>>

Types == {"i8", "f32"}

\* i8::MIN and i8::MAX.
TMin == -(2^7)

TMax == 2^7 - 1

\* Two's complement wrap-around into i8.
Wrap(n) == ((n - TMin) % 2^8) + TMin

\* What an element operation yields: a value, or a panic.
Ok(v) == [ok |-> TRUE, v |-> v]

Panic == [ok |-> FALSE, v |-> 0]

\* An integer result r: kept when it fits; otherwise a panic in a build with
\* overflow checks and the wrapped value in one without.
Overflowing(r) ==
    IF TMin <= r /\ r <= TMax THEN Ok(r)
    ELSE IF overflow_checks THEN Panic
    ELSE Ok(Wrap(r))

\* Integer division truncates toward zero.
IntQuot(x, y) ==
    LET q == (IF x < 0 THEN -x ELSE x) \div (IF y < 0 THEN -y ELSE y)
    IN  IF (x < 0) = (y < 0) THEN q ELSE -q

\* T's own +, -, *, /.
TAdd(ty, x, y) == IF ty = "f32" THEN Ok(FAdd(x, y)) ELSE Overflowing(x + y)

TSub(ty, x, y) == IF ty = "f32" THEN Ok(FSub(x, y)) ELSE Overflowing(x - y)

TMul(ty, x, y) == IF ty = "f32" THEN Ok(FMul(x, y)) ELSE Overflowing(x * y)

\* Integer division by zero, and MIN / -1, panic in every build.
TDiv(ty, x, y) ==
    IF ty = "f32" THEN Ok(FDiv(x, y))
    ELSE IF y = 0 THEN Panic
    ELSE IF x = TMin /\ y = -1 THEN Panic
    ELSE Ok(IntQuot(x, y))

\* T's conversion into f32; exact for i8.
into(ty, x) == IF ty = "f32" THEN x ELSE FromInt(x)

(***************************************************************************)
(* Vec2<T>                                                                 *)
(***************************************************************************)

new(x, y) == [x |-> x, y |-> y]

\* What a call returns.
Ret(kind, val) == [kind |-> kind, val |-> val]

NoRet == Ret("none", 0)

Panicked == Ret("panic", 0)

\* A struct expression whose two fields are evaluated in order: a panic in
\* either unwinds out of the operator.
Build(rx, ry) ==
    IF rx.ok /\ ry.ok THEN Ret("vec", new(rx.v, ry.v)) ELSE Panicked

\* add with the y field taken from the wrong axis of self.
add_crossed(ty, self, rhs) == Build(TAdd(ty, self.x, rhs.x), TAdd(ty, self.x, rhs.y))

add(ty, self, rhs) == Build(TAdd(ty, self.x, rhs.x), TAdd(ty, self.y, rhs.y))

sub(ty, self, rhs) == Build(TSub(ty, self.x, rhs.x), TSub(ty, self.y, rhs.y))

\* mul by a scalar that leaves the y field unscaled.
mul_scalar_x_only(ty, self, rhs) == Build(TMul(ty, self.x, rhs), Ok(self.y))

mul_scalar(ty, self, rhs) == Build(TMul(ty, self.x, rhs), TMul(ty, self.y, rhs))

mul(ty, self, rhs) == Build(TMul(ty, self.x, rhs.x), TMul(ty, self.y, rhs.y))

\* div by a scalar that checks for an integer zero and falls back to (0, 0).
div_scalar_guarded(ty, self, rhs) ==
    IF ty = "i8" /\ rhs = 0 THEN Ret("vec", new(0, 0))
    ELSE Build(TDiv(ty, self.x, rhs), TDiv(ty, self.y, rhs))

div_scalar(ty, self, rhs) == Build(TDiv(ty, self.x, rhs), TDiv(ty, self.y, rhs))

div(ty, self, rhs) == Build(TDiv(ty, self.x, rhs.x), TDiv(ty, self.y, rhs.y))

(***************************************************************************)
(* The operators, called on sampled vectors                                *)
(***************************************************************************)

\* Integers -MaxVal..MaxVal are sampled beside the extremes of the type.
MaxVal == 1

IntElems == (-MaxVal..MaxVal) \cup {TMin, TMax}

F32Elems == {FromInt(i) : i \in -MaxVal..MaxVal} \cup {Inf(0), NaN}

Elems(ty) == IF ty = "f32" THEN F32Elems ELSE IntElems

Vecs(ty) == {new(x, y) : x \in Elems(ty), y \in Elems(ty)}

\* Overflow checks bear on integer arithmetic alone: the f32 instantiation is
\* taken in one build.
InitOps ==
    /\ T \in Types
    /\ overflow_checks \in (IF T = "f32" THEN {FALSE} ELSE BOOLEAN)
    /\ a \in Vecs(T)
    /\ b \in Vecs(T)
    /\ op = "new"
    /\ arg = 0
    /\ res = NoRet
    /\ back = NoRet

Called(name, argument, ret) ==
    /\ op' = name
    /\ arg' = argument
    /\ res' = ret
    /\ back' = NoRet
    /\ UNCHANGED <<T, overflow_checks, a, b>>

Add == Called("add", 0, add(T, a, b))

Sub == Called("sub", 0, sub(T, a, b))

MulScalar == \E s \in Elems(T) : Called("mul_scalar", s, mul_scalar(T, a, s))

Mul == Called("mul", 0, mul(T, a, b))

DivScalar == \E s \in Elems(T) : Called("div_scalar", s, div_scalar(T, a, s))

Div == Called("div", 0, div(T, a, b))

NextOps == Add \/ Sub \/ MulScalar \/ Mul \/ DivScalar \/ Div

SpecOps == InitOps /\ [][NextOps]_vars

(***************************************************************************)
(* Properties of the operators (under SpecOps)                             *)
(***************************************************************************)

\* T's operator behind each vector-by-vector operator.
ElemOp(name, x, y) ==
    CASE name = "add" -> TAdd(T, x, y)
      [] name = "sub" -> TSub(T, x, y)
      [] name = "mul" -> TMul(T, x, y)
      [] name = "div" -> TDiv(T, x, y)

\* The exact integer the operator stands for; for "div", the quotient q with
\* x = q*y + r, |r| < |y| and r of x's sign.
ExactInt(name, x, y, q) ==
    CASE name = "add" -> q = x + y
      [] name = "sub" -> q = x - y
      [] name = "mul" -> q = x * y
      [] name = "div" ->
           LET r == x - q * y
           IN  /\ (IF r < 0 THEN -r ELSE r) < (IF y < 0 THEN -y ELSE y)
               /\ (r = 0 \/ (r < 0) = (x < 0))

SameRet(r1, r2) == r1.kind = r2.kind /\ (r1.kind = "vec" => r1.val = r2.val)

\* C1: each vector-by-vector operator (+, -, *, /) is component-wise: the
\* result's x is T's operator applied to the two x fields and its y is T's
\* operator applied to the two y fields, neither reading the other axis; the
\* operator panics exactly when one of the two element operations does, and a
\* division whose divisor has no zero component is the component-wise
\* quotient.  For i8 without overflow the fields are the exact integer sum,
\* difference, product and truncated quotient.
C1_Componentwise ==
    op \in {"add", "sub", "mul", "div"} =>
        LET rx == ElemOp(op, a.x, b.x)
            ry == ElemOp(op, a.y, b.y)
        IN  /\ res.kind \in {"vec", "panic"}
            /\ (res.kind = "vec") = (rx.ok /\ ry.ok)
            /\ res.kind = "vec" => res.val.x = rx.v /\ res.val.y = ry.v
            /\ (res.kind = "vec" /\ T = "i8" /\ overflow_checks) =>
                   /\ ExactInt(op, a.x, b.x, res.val.x)
                   /\ ExactInt(op, a.y, b.y, res.val.y)
            /\ (op = "div" /\ T = "i8" /\ b.x # 0 /\ b.y # 0
                  /\ ~(a.x = TMin /\ b.x = -1) /\ ~(a.y = TMin /\ b.y = -1)) =>
                   res.kind = "vec"

\* A truncating integer division carried out on each axis: (127, -1) / (-1, 127).
C1_Witness ==
    /\ T = "i8" /\ op = "div"
    /\ a = new(TMax, -1) /\ b = new(-1, TMax)
    /\ res = Ret("vec", new(-TMax, 0))

\* C2: the vector-by-scalar operators apply the one scalar to both
\* components, (a * s) = (a.x * s, a.y * s) and, for a nonzero s,
\* (a / s) = (a.x / s, a.y / s), and a * s is what the component-wise
\* overload returns for a * Vec2(s, s).
C2_ScalarBothComponents ==
    /\ op = "mul_scalar" =>
         LET rx == TMul(T, a.x, arg)
             ry == TMul(T, a.y, arg)
         IN  /\ (res.kind = "vec") = (rx.ok /\ ry.ok)
             /\ res.kind = "vec" => res.val = new(rx.v, ry.v)
             /\ (res.kind = "vec" /\ T = "i8" /\ overflow_checks) =>
                    res.val = new(a.x * arg, a.y * arg)
             /\ SameRet(res, mul(T, a, new(arg, arg)))
    /\ op = "div_scalar" =>
         LET rx == TDiv(T, a.x, arg)
             ry == TDiv(T, a.y, arg)
         IN  /\ (res.kind = "vec") = (rx.ok /\ ry.ok)
             /\ res.kind = "vec" => res.val = new(rx.v, ry.v)
             /\ (T = "i8" /\ arg # 0 /\ ~(arg = -1 /\ TMin \in {a.x, a.y})) =>
                    /\ res.kind = "vec"
                    /\ ExactInt("div", a.x, arg, res.val.x)
                    /\ ExactInt("div", a.y, arg, res.val.y)

\* (127, -1) * -1 = (-127, 1): both components scaled by the same scalar.
C2_Witness ==
    /\ T = "i8" /\ op = "mul_scalar" /\ arg = -1
    /\ a = new(TMax, -1)
    /\ res = Ret("vec", new(-TMax, 1))

\* C9: division returns a vector of T's quotients or faults, nothing else:
\* for the integer element type, dividing by a zero scalar or by a vector
\* with a zero component panics, whatever the dividend, and no result vector
\* is produced; a vector that is returned holds T's own quotients, never a
\* substituted value.
C9_DivisionByZeroFaults ==
    op \in {"div", "div_scalar"} =>
        LET dx == IF op = "div" THEN b.x ELSE arg
            dy == IF op = "div" THEN b.y ELSE arg
        IN  /\ res.kind \in {"vec", "panic"}
            /\ (T = "i8" /\ (dx = 0 \/ dy = 0)) => res.kind = "panic"
            /\ res.kind = "vec" =>
                   /\ res.val.x = TDiv(T, a.x, dx).v
                   /\ res.val.y = TDiv(T, a.y, dy).v
                   /\ T = "i8" => dx # 0 /\ dy # 0

\* An integer vector divided by the scalar zero: the call panicked.
C9_Witness ==
    /\ T = "i8" /\ op = "div_scalar" /\ arg = 0
    /\ a = new(1, TMax)
    /\ res.kind = "panic"

(***************************************************************************)
(* Equality and the geometric methods                                      *)
(***************************************************************************)

\* The f32 literal 0.0001 = 0x38D1B717, a little below 1/10000.
Epsilon == F32(0, 113, 5355287)

One == F32(0, 127, 0)

\* std::f32::consts::FRAC_PI_2 = 0x3FC90FDB and PI = 0x40490FDB.
FRAC_PI_2 == F32(0, 127, 4788187)

PI == F32(0, 128, 4788187)

\* f32::cos at the angles the model samples, by magnitude (cos is even): the
\* correctly rounded values, which are the ones libm returns.
cos(x) ==
    LET t == FAbs(x)
    IN  CASE IsNaN(x) \/ IsInf(x) -> NaN
          [] t = Zero(0)   -> One
          [] t = One       -> F32(0, 126, 676160)
          [] t = FRAC_PI_2 -> F32(1, 102, 3915054)
          [] t = PI        -> F32(1, 127, 0)

\* f32::sin at the same angles (sin is odd).
sin(x) ==
    LET t == FAbs(x)
        p == CASE IsNaN(x) \/ IsInf(x) -> NaN
               [] t = Zero(0)   -> Zero(0)
               [] t = One       -> F32(0, 126, 5728932)
               [] t = FRAC_PI_2 -> One
               [] t = PI        -> F32(1, 103, 3915054)
    IN  IF x.s = 1 THEN FNeg(p) ELSE p

\* f32::acos: NaN outside [-1, 1], exact at -1, 0 and 1; elsewhere the model
\* keeps the application itself, the value acos takes at x.
acos(x) ==
    IF IsNaN(x) \/ FLt(One, FAbs(x)) THEN Ret("f32", NaN)
    ELSE IF x = One THEN Ret("f32", Zero(0))
    ELSE IF x = FNeg(One) THEN Ret("f32", PI)
    ELSE IF IsZero(x) THEN Ret("f32", FRAC_PI_2)
    ELSE Ret("acos", x)

\* eq that compares the x fields and forgets the y fields.
eq_x_only(ty, self, other) ==
    FLt(FAbs(FSub(into(ty, self.x), into(ty, other.x))), Epsilon)

eq(ty, self, other) ==
    LET diff_x == FAbs(FSub(into(ty, self.x), into(ty, other.x)))
        diff_y == FAbs(FSub(into(ty, self.y), into(ty, other.y)))
    IN  FLt(diff_x, Epsilon) /\ FLt(diff_y, Epsilon)

\* magnitude without the square root: the squared length.
magnitude_squared(ty, self) ==
    LET x == into(ty, self.x)
        y == into(ty, self.y)
    IN  FAdd(FMul(x, x), FMul(y, y))

magnitude(ty, self) ==
    LET x == into(ty, self.x)
        y == into(ty, self.y)
    IN  FSqrt(FAdd(FMul(x, x), FMul(y, y)))

\* normalized without the zero check: it divides by the magnitude always.
normalized_unguarded(ty, self) ==
    [self |-> self,
     ret  |-> new(FDiv(into(ty, self.x), magnitude(ty, self)),
                  FDiv(into(ty, self.y), magnitude(ty, self)))]

\* normalized that stores the unit vector back into its receiver (for i8, each
\* component truncated to an integer).
normalized_in_place(ty, self) ==
    LET mag == magnitude(ty, self)
        ret == IF FEq(mag, Zero(0)) THEN new(Zero(0), Zero(0))
               ELSE new(FDiv(into(ty, self.x), mag), FDiv(into(ty, self.y), mag))
        trunc(f) == IF f = F32(0, 127, 0) THEN 1 ELSE IF f = F32(1, 127, 0) THEN -1 ELSE 0
    IN  [self |-> IF ty = "f32" THEN ret ELSE new(trunc(ret.x), trunc(ret.y)),
         ret  |-> ret]

\* normalized takes &mut self: the receiver as the call leaves it, and the
\* vector it returns.
normalized(ty, self) ==
    LET mag == magnitude(ty, self)
    IN  [self |-> self,
         ret  |-> IF FEq(mag, Zero(0)) THEN new(Zero(0), Zero(0))
                  ELSE new(FDiv(into(ty, self.x), mag), FDiv(into(ty, self.y), mag))]

dot(ty, self, other) ==
    LET x1 == into(ty, self.x)
        y1 == into(ty, self.y)
        x2 == into(ty, other.x)
        y2 == into(ty, other.y)
    IN  FAdd(FMul(x1, x2), FMul(y1, y2))

\* cross with its two products in the wrong order: y1*x2 - x1*y2.
cross_flipped(ty, self, other) ==
    FSub(FMul(into(ty, self.y), into(ty, other.x)),
         FMul(into(ty, self.x), into(ty, other.y)))

cross(ty, self, other) ==
    LET x1 == into(ty, self.x)
        y1 == into(ty, self.y)
        x2 == into(ty, other.x)
        y2 == into(ty, other.y)
    IN  FSub(FMul(x1, y2), FMul(y1, x2))

\* angle without the zero check: it divides by mag1 * mag2 always.
angle_unguarded(ty, self, other) ==
    acos(FDiv(dot(ty, self, other),
              FMul(magnitude(ty, self), magnitude(ty, other))))

angle(ty, self, other) ==
    LET mag1 == magnitude(ty, self)
        mag2 == magnitude(ty, other)
    IN  IF FEq(mag1, Zero(0)) \/ FEq(mag2, Zero(0)) THEN Ret("f32", Zero(0))
        ELSE acos(FDiv(dot(ty, self, other), FMul(mag1, mag2)))

\* rotate_around that forgets to translate back by the pivot.
rotate_around_no_translate_back(ty, self, pivot, theta) ==
    LET x == FSub(into(ty, self.x), into(ty, pivot.x))
        y == FSub(into(ty, self.y), into(ty, pivot.y))
    IN  new(FSub(FMul(x, cos(theta)), FMul(y, sin(theta))),
            FAdd(FMul(x, sin(theta)), FMul(y, cos(theta))))

rotate_around(ty, self, pivot, theta) ==
    LET cos_theta == cos(theta)
        sin_theta == sin(theta)
        x == FSub(into(ty, self.x), into(ty, pivot.x))
        y == FSub(into(ty, self.y), into(ty, pivot.y))
        rotated_x == FSub(FMul(x, cos_theta), FMul(y, sin_theta))
        rotated_y == FAdd(FMul(x, sin_theta), FMul(y, cos_theta))
    IN  new(FAdd(rotated_x, into(ty, pivot.x)), FAdd(rotated_y, into(ty, pivot.y)))

(***************************************************************************)
(* The methods, called on sampled vectors                                  *)
(***************************************************************************)

\* Vectors with both coordinates in -MaxCoord..MaxCoord are sampled, beside
\* the vectors of the tests and, for f32, vectors at the edges of the format.
MaxCoord == 1

IntPairs ==
    ((-MaxCoord..MaxCoord) \X (-MaxCoord..MaxCoord)) \cup {<<3, 4>>, <<1, 2>>}

\* 2^64, whose square overflows; 2^-75, whose square rounds to zero;
\* 1.5 * 2^-75, whose square rounds to the least subnormal; and the value next
\* below Epsilon.
Big == F32(0, 191, 0)

Tiny == F32(0, 52, 0)

LeastMag == F32(0, 52, 2^22)

BelowEpsilon == F32(0, 113, 5355286)

EdgeVecs ==
    {new(Big, Zero(0)), new(Tiny, Zero(0)), new(LeastMag, Zero(0)),
     new(Inf(0), Zero(0)), new(NaN, One),
     new(Epsilon, Zero(0)), new(BelowEpsilon, Zero(0))}

GeomVecs(ty) ==
    IF ty = "f32"
    THEN {new(FromInt(p[1]), FromInt(p[2])) : p \in IntPairs} \cup EdgeVecs
    ELSE {new(p[1], p[2]) : p \in IntPairs} \cup {new(TMax, TMin)}

RotAngles == {Zero(0), One, FRAC_PI_2, FNeg(FRAC_PI_2), PI}

\* These methods do no integer arithmetic: one build is taken.
InitGeom ==
    /\ T \in Types
    /\ overflow_checks = FALSE
    /\ a \in GeomVecs(T)
    /\ b \in GeomVecs(T)
    /\ op = "new"
    /\ arg = 0
    /\ res = NoRet
    /\ back = NoRet

Eq == Called("eq", 0, Ret("bool", eq(T, a, b)))

Magnitude == Called("magnitude", 0, Ret("f32", magnitude(T, a)))

\* The one method with a mutable receiver: the caller's vector is what the
\* call leaves of it.
Normalized ==
    /\ op' = "normalized"
    /\ arg' = 0
    /\ res' = Ret("vec", normalized(T, a).ret)
    /\ a' = normalized(T, a).self
    /\ back' = NoRet
    /\ UNCHANGED <<T, overflow_checks, b>>

Dot == Called("dot", 0, Ret("f32", dot(T, a, b)))

Cross == Called("cross", 0, Ret("f32", cross(T, a, b)))

Angle == Called("angle", 0, angle(T, a, b))

RotateAround ==
    \E theta \in RotAngles :
        Called("rotate_around", theta, Ret("vec", rotate_around(T, a, b, theta)))

\* The rotation undone: the returned Vec2<f32> rotated about the same pivot
\* (converted to f32) by the negated angle.
RotateBack ==
    /\ op = "rotate_around"
    /\ op' = "rotate_back"
    /\ back' = Ret("vec", rotate_around("f32", res.val,
                                        new(into(T, b.x), into(T, b.y)), FNeg(arg)))
    /\ UNCHANGED <<T, overflow_checks, a, b, arg, res>>

NextGeom ==
    \/ Eq \/ Magnitude \/ Normalized \/ Dot \/ Cross \/ Angle
    \/ RotateAround \/ RotateBack

SpecGeom == InitGeom /\ [][NextGeom]_vars

(***************************************************************************)
(* Properties of equality and of the methods (under SpecGeom)              *)
(***************************************************************************)

\* The f32 literal 1e-6 of the tests, 0x358637BD.
Tolerance == F32(0, 107, 407485)

\* Whether f is an integer (of magnitude at most 2^24), and which.
IsInt(f) == IsZero(f) \/ (f.e >= 127 /\ f.e <= 150 /\ f.m % 2^(150 - f.e) = 0)

IntOf(f) ==
    IF IsZero(f) THEN 0
    ELSE (IF f.s = 1 THEN -1 ELSE 1) * (Sig(f) \div 2^(150 - f.e))

IntVal(x) == IF T = "f32" THEN IntOf(x) ELSE x

\* v's components are integers of magnitude at most n.
Small(v, n) ==
    /\ T = "f32" => IsInt(v.x) /\ IsInt(v.y)
    /\ -n <= IntVal(v.x) /\ IntVal(v.x) <= n
    /\ -n <= IntVal(v.y) /\ IntVal(v.y) <= n

\* v is the vector (i, j) of the element type.
IsVec(v, i, j) == Small(v, 2^7) /\ IntVal(v.x) = i /\ IntVal(v.y) = j

\* The caller's vector as a Vec2<f32>.
AsF32(v) == new(into(T, v.x), into(T, v.y))

\* |x - y| < bound, in f32 arithmetic.
Within(x, y, bound) == FLt(FAbs(FSub(x, y)), bound)

\* The unit-length and same-direction checks of test_normalized_nonzero.
UnitAlong(n, v) ==
    /\ Within(magnitude("f32", n), One, Tolerance)
    /\ Within(FDiv(dot("f32", AsF32(v), n), magnitude(T, v)), One, Tolerance)

Quotients(v) ==
    new(FDiv(into(T, v.x), magnitude(T, v)), FDiv(into(T, v.y), magnitude(T, v)))

\* C3 as stated: normalized() returns (0, 0) when the magnitude is zero and
\* otherwise (x / magnitude, y / magnitude), a vector of magnitude 1 (to the
\* tests' 1e-6) in the receiver's direction, for any vector.
C3_Original ==
    op = "normalized" =>
        IF IsZero(magnitude(T, a)) THEN res.val = new(Zero(0), Zero(0))
        ELSE res.val = Quotients(a) /\ UnitAlong(res.val, a)

\* C3 amended: normalized() returns (0, 0) when the computed magnitude is
\* zero and otherwise (x / magnitude, y / magnitude) in f32 arithmetic; that
\* vector has magnitude 1 (to 1e-6) and the receiver's direction when the
\* receiver's components are integers of magnitude at most 128 (every i8
\* vector), but not for every f32 vector: (2^64, 0), whose squared length
\* overflows to infinity, is normalized to (0, 0).
C3_Amended ==
    op = "normalized" =>
        /\ IF IsZero(magnitude(T, a)) THEN res.val = new(Zero(0), Zero(0))
           ELSE res.val = Quotients(a)
        /\ (Small(a, 2^7) /\ ~IsVec(a, 0, 0)) => UnitAlong(res.val, a)
        /\ (T = "f32" /\ a = new(Big, Zero(0))) => res.val = new(Zero(0), Zero(0))

\* (3.0, 4.0) normalized to (0.6, 0.8), as f32: 0x3F19999A and 0x3F4CCCCD.
C3_Witness ==
    /\ T = "f32" /\ op = "normalized"
    /\ a = new(FromInt(3), FromInt(4))
    /\ res = Ret("vec", new(F32(0, 126, 1677722), F32(0, 126, 5033165)))

\* C4: angle(other) returns 0.0 whenever the receiver or the argument has
\* zero magnitude; otherwise it returns acos(dot / (mag1 * mag2)), and the
\* denominator mag1 * mag2 it divides by is then never zero; for (1, 0) and
\* (0, 1) the result is FRAC_PI_2.
C4_AngleGuardsZeroMagnitude ==
    op = "angle" =>
        LET mag1 == magnitude(T, a)
            mag2 == magnitude(T, b)
        IN  /\ IF IsZero(mag1) \/ IsZero(mag2) THEN res = Ret("f32", Zero(0))
               ELSE /\ ~IsZero(FMul(mag1, mag2))
                    /\ res = acos(FDiv(dot(T, a, b), FMul(mag1, mag2)))
            /\ (IsVec(a, 1, 0) /\ IsVec(b, 0, 1)) => res = Ret("f32", FRAC_PI_2)

\* The angle between (1, 0) and (0, 1).
C4_Witness ==
    /\ op = "angle" /\ T = "f32"
    /\ a = new(One, Zero(0)) /\ b = new(Zero(0), One)
    /\ res = Ret("f32", FRAC_PI_2)

EqFormula ==
    /\ Within(into(T, a.x), into(T, b.x), Epsilon)
    /\ Within(into(T, a.y), into(T, b.y), Epsilon)

\* Integer vectors that differ, so by 1 or more, in some component.
DifferByMore ==
    /\ Small(a, 2^7) /\ Small(b, 2^7)
    /\ (IntVal(a.x) # IntVal(b.x) \/ IntVal(a.y) # IntVal(b.y))

\* C5 as stated: a == b exactly when both f32 differences are strictly below
\* 0.0001, hence vectors built from identical values compare equal and
\* vectors differing by more than 1e-4 in a component compare unequal.
C5_Original ==
    op = "eq" =>
        /\ res.val = EqFormula
        /\ a = b => res.val
        /\ DifferByMore => ~res.val

\* C5 amended: a == b exactly when both f32 differences are strictly below
\* 0.0001 (a difference of exactly 0.0001f32 is unequal, the next value below
\* it equal); hence vectors built from identical finite values compare equal,
\* a vector with an infinite or NaN component is unequal to itself, and
\* vectors differing by more than 1e-4 in a component compare unequal.
C5_Amended ==
    op = "eq" =>
        /\ res.val = EqFormula
        /\ (a = b /\ IsFinite(into(T, a.x)) /\ IsFinite(into(T, a.y))) => res.val
        /\ (a = b /\ ~(IsFinite(into(T, a.x)) /\ IsFinite(into(T, a.y)))) => ~res.val
        /\ DifferByMore => ~res.val
        /\ (T = "f32" /\ a = new(Epsilon, Zero(0)) /\ IsVec(b, 0, 0)) => ~res.val
        /\ (T = "f32" /\ a = new(BelowEpsilon, Zero(0)) /\ IsVec(b, 0, 0)) => res.val

\* Two vectors a little less than 0.0001 apart compare equal.
C5_Witness ==
    /\ op = "eq" /\ T = "f32"
    /\ a = new(BelowEpsilon, Zero(0)) /\ b = new(Zero(0), Zero(0))
    /\ res = Ret("bool", TRUE)

\* C6: no method changes the vectors it is called with: across every call
\* (magnitude, normalized, dot, cross, angle, rotate_around, and so across
\* every sequence of them) the receiver and the argument or pivot keep their
\* x and y; normalized, with its mutable receiver, included.
C6_NoMethodChangesItsVectors == [][a' = a /\ b' = b]_vars

\* normalized has returned a vector that differs from its receiver, which is
\* as it was constructed.
C6_Witness ==
    /\ op = "normalized" /\ T = "f32"
    /\ a = new(FromInt(3), FromInt(4))
    /\ res.val # a

\* C7: dot is x1*x2 + y1*y2 and cross is x1*y2 - y1*x2 over the components
\* converted to f32; for integer components of magnitude at most 128 they
\* are the exact integers (a zero of either sign); dot((1,2),(3,4)) = 11 and cross((1,2),(3,4)) = -2.
C7_DotAndCross ==
    LET x1 == into(T, a.x)
        y1 == into(T, a.y)
        x2 == into(T, b.x)
        y2 == into(T, b.y)
        ints == Small(a, 2^7) /\ Small(b, 2^7)
    IN  /\ op = "dot" =>
            /\ res.val = FAdd(FMul(x1, x2), FMul(y1, y2))
            /\ ints => FEq(res.val, FromInt(IntVal(a.x) * IntVal(b.x)
                                              + IntVal(a.y) * IntVal(b.y)))
            /\ (IsVec(a, 1, 2) /\ IsVec(b, 3, 4)) => res.val = FromInt(11)
        /\ op = "cross" =>
            /\ res.val = FSub(FMul(x1, y2), FMul(y1, x2))
            /\ ints => FEq(res.val, FromInt(IntVal(a.x) * IntVal(b.y)
                                              - IntVal(a.y) * IntVal(b.x)))
            /\ (IsVec(a, 1, 2) /\ IsVec(b, 3, 4)) => res.val = FromInt(-2)

\* cross((1, 2), (3, 4)) = -2.
C7_Witness ==
    /\ op = "cross" /\ T = "f32"
    /\ a = new(FromInt(1), FromInt(2)) /\ b = new(FromInt(3), FromInt(4))
    /\ res = Ret("f32", FromInt(-2))

\* Integer components of magnitude at most RoundTripRange round-trip.
RoundTripRange == 4

\* Each component of v within 0.0001 of w's.
Close(v, w) == Within(v.x, w.x, Epsilon) /\ Within(v.y, w.y, Epsilon)

\* C8 as stated: for arbitrary v, pivot and angle, rotating v about the pivot
\* by the angle and then by its negation gives v back to within a small
\* epsilon (here the library's own 0.0001).
C8_Original == op = "rotate_back" => Close(back.val, AsF32(a))

\* C8 amended: rotate_around translates by -pivot, applies the
\* counter-clockwise rotation matrix and translates back, all in f32; the
\* round trip by the angle and its negation gives v back to within 0.0001
\* when v and the pivot have integer components of magnitude at most 4, but
\* not for arbitrary f32 vectors: about the pivot (2^64, 0) the vector (1, 0)
\* is rotated, even by the angle 0, to (0, 0).
C8_Amended ==
    /\ (op = "rotate_back" /\ Small(a, RoundTripRange) /\ Small(b, RoundTripRange)) =>
           Close(back.val, AsF32(a))
    /\ op = "rotate_around" =>
           LET x == FSub(into(T, a.x), into(T, b.x))
               y == FSub(into(T, a.y), into(T, b.y))
           IN  /\ res.val.x = FAdd(FSub(FMul(x, cos(arg)), FMul(y, sin(arg))),
                                   into(T, b.x))
               /\ res.val.y = FAdd(FAdd(FMul(x, sin(arg)), FMul(y, cos(arg))),
                                   into(T, b.y))
    /\ (op = "rotate_around" /\ IsVec(a, 1, 0) /\ IsVec(b, 0, 0) /\ arg = FRAC_PI_2) =>
           res.val = new(cos(FRAC_PI_2), One)
    /\ (op = "rotate_around" /\ IsVec(a, 1, 1) /\ IsVec(b, 1, 0) /\ arg = PI) =>
           Close(res.val, new(One, FNeg(One)))
    /\ (op = "rotate_around" /\ T = "f32" /\ IsVec(a, 1, 0)
          /\ b = new(Big, Zero(0)) /\ arg = Zero(0)) =>
           res.val = new(Zero(0), Zero(0))

\* (1, 2) rotated about (3, 4) by one radian and back.
C8_Witness ==
    /\ op = "rotate_back" /\ T = "f32" /\ arg = One
    /\ a = new(FromInt(1), FromInt(2)) /\ b = new(FromInt(3), FromInt(4))
    /\ Close(back.val, a)

SquaredLength(v) ==
    FAdd(FMul(into(T, v.x), into(T, v.x)), FMul(into(T, v.y), into(T, v.y)))

\* C10 as stated: magnitude() is non-negative, its square equals x*x + y*y,
\* it is 5 for (3, 4) and zero for (0, 0).
C10_Original ==
    op = "magnitude" =>
        /\ FLe(Zero(0), res.val)
        /\ FEq(FMul(res.val, res.val), SquaredLength(a))
        /\ IsVec(a, 3, 4) => res.val = FromInt(5)
        /\ IsVec(a, 0, 0) => res.val = Zero(0)

\* C10 amended: magnitude() is the f32 square root of the f32 sum
\* x*x + y*y: it is non-negative unless a component is NaN (then it is NaN);
\* its square equals x*x + y*y up to rounding only (for integer components
\* of magnitude at most 128, to a relative error of at most 2^-22; for (1, 1)
\* the square is 1.9999999, not 2); it is 5 for (3, 4) and zero for (0, 0).
C10_Amended ==
    op = "magnitude" =>
        /\ res.val = FSqrt(SquaredLength(a))
        /\ IsNaN(res.val) = (IsNaN(into(T, a.x)) \/ IsNaN(into(T, a.y)))
        /\ ~IsNaN(res.val) => FLe(Zero(0), res.val) /\ res.val.s = 0
        /\ Small(a, 2^7) =>
               FLe(FAbs(FSub(FMul(res.val, res.val), SquaredLength(a))),
                   FMul(SquaredLength(a), F32(0, 105, 0)))
        /\ IsVec(a, 1, 1) => FMul(res.val, res.val) = F32(0, 127, 2^23 - 1)
        /\ IsVec(a, 3, 4) => res.val = FromInt(5)
        /\ IsVec(a, 0, 0) => res.val = Zero(0)

\* The magnitude of (3, 4).
C10_Witness ==
    /\ op = "magnitude" /\ T = "i8"
    /\ a = new(3, 4)
    /\ res = Ret("f32", FromInt(5))

====
